---------------------------- MODULE Spec2Model ----------------------------
(***************************************************************************)
(* Model of promql/src/extension_plan/empty_metric.rs: the EmptyMetric     *)
(* logical node, the EmptyMetricExec physical node and the one-shot        *)
(* EmptyMetricStream.  Millisecond (i64) and usize are modelled with       *)
(* BitWidth bits, f64 with MantBits bits of significand, so that integer   *)
(* overflow and floating-point rounding happen inside the checked range.   *)
(***************************************************************************)
EXTENDS Integers, Sequences, FiniteSets, TLC

VARIABLES node, other, cmp, exec, stats, stream, metric, polled, recorded, evaluated

vars == <<node, other, cmp, exec, stats, stream, metric, polled, recorded, evaluated>>

-----------------------------------------------------------------------------
(* Bounds of the model *)

\* width in bits of Millisecond (i64) and of usize in the model
BitWidth == 4

\* largest interval drawn for a node
MaxInterval == 3

\* number of pulls made on one stream
MaxPolls == 2

\* largest partition index passed to execute
MaxPartition == 1

\* largest bound drawn for the two nodes that are compared
MaxCmpTime == 1

-----------------------------------------------------------------------------
(* Fixed-width integers *)

RECURSIVE Pow2(_)
Pow2(n) == IF n = 0 THEN 1 ELSE 2 * Pow2(n - 1)

MinInt == -Pow2(BitWidth - 1)

MaxInt == Pow2(BitWidth - 1) - 1

UsizeMax == Pow2(BitWidth) - 1

Millisecond == MinInt..MaxInt

\* two's complement wrap-around of a mathematical integer into Millisecond
WrapSigned(x) == ((x - MinInt) % Pow2(BitWidth)) + MinInt

\* `x as usize` for a signed x
AsUsize(x) == x % Pow2(BitWidth)

-----------------------------------------------------------------------------
(* f64, with MantBits bits of significand.  A float is a rational          *)
(* num / den with den a power of two.                                      *)

MantBits == BitWidth - 2

\* the scale that makes every quotient of two model integers at least 2^MantBits
FScale == Pow2(BitWidth + MantBits)

Abs(x) == IF x < 0 THEN -x ELSE x

RECURSIVE BitLen(_)
BitLen(n) == IF n = 0 THEN 0 ELSE 1 + BitLen(n \div 2)

\* round the non-negative rational a / b to MantBits significant bits,
\* nearest, ties to even; the result is returned as a multiple of 1 / FScale
RoundRatio(a, b) ==
    IF a = 0 THEN 0
    ELSE LET A    == a * FScale
             k0   == BitLen(A \div b) - MantBits
             k    == IF k0 < 0 THEN 0 ELSE k0
             unit == b * Pow2(k)
             q    == A \div unit
             rem  == A - q * unit
             up   == (2 * rem > unit) \/ (2 * rem = unit /\ q % 2 = 1)
         IN  (IF up THEN q + 1 ELSE q) * Pow2(k)

\* `x as f64` for an integer x
AsF64(x) ==
    [num |-> (IF x < 0 THEN -1 ELSE 1) * RoundRatio(Abs(x), 1), den |-> FScale]

\* x / y on f64, y > 0
F64Div(x, y) ==
    [num |-> (IF x.num < 0 THEN -1 ELSE 1) * RoundRatio(Abs(x.num), y.num),
     den |-> FScale]

\* x * c on f64 for a small power of two c (exact)
F64MulPow2(x, c) == [num |-> x.num * c, den |-> x.den]

\* x.floor()
F64Floor(x) == x.num \div x.den

\* `f as usize` for an integral float: saturating
F64AsUsize(f) == IF f < 0 THEN 0 ELSE IF f > UsizeMax THEN UsizeMax ELSE f

-----------------------------------------------------------------------------
(* Expressions, schemas and the logical node EmptyMetric *)

None == "None"

\* a variable that holds no object yet
NotYet == [not_yet |-> TRUE]

\* the expressions the planner hands to EmptyMetric: the special time
\* expression (build_special_time_expr) and a literal
Exprs == {"time", "lit"}

OptExprs == {None} \cup Exprs

\* Expr::get_type against the timestamp-only schema
get_type(expr) == IF expr = "time" THEN "Float64" ELSE "Int64"

\* position of an Option<Expr> in the derived order: None, then Literal,
\* then BinaryExpr
ExprRank(e) == IF e = None THEN 0 ELSE IF e = "lit" THEN 1 ELSE 2

Field(name, type, nullable) == [name |-> name, type |-> type, nullable |-> nullable]

build_ts_only_schema(column_name) == <<Field(column_name, "TimestampMs", FALSE)>>

new(start, end, interval, time_index_column_name, field_column_name, field_expr) ==
    LET ts_only_schema == build_ts_only_schema(time_index_column_name)
        fields == IF field_expr # None
                  THEN <<ts_only_schema[1],
                         Field(field_column_name, get_type(field_expr), TRUE)>>
                  ELSE <<ts_only_schema[1]>>
    IN  [start |-> start, end |-> end, interval |-> interval,
         expr |-> field_expr,
         time_index_schema |-> ts_only_schema,
         result_schema |-> fields]

\* UserDefinedLogicalNodeCore::expressions
expressions(self) == IF self.expr # None THEN <<self.expr>> ELSE <<>>

\* exprs is the vector of expressions handed back by the optimizer
with_exprs_and_inputs(self, exprs) ==
    [start |-> self.start, end |-> self.end, interval |-> self.interval,
     expr |-> IF Len(exprs) > 0 THEN exprs[1] ELSE None,
     time_index_schema |-> self.time_index_schema,
     result_schema |-> self.result_schema]

\* derived PartialEq: every field of the struct, the two schemas included
eq(self, o) ==
    /\ self.start = o.start
    /\ self.end = o.end
    /\ self.interval = o.interval
    /\ self.expr = o.expr
    /\ self.time_index_schema = o.time_index_schema
    /\ self.result_schema = o.result_schema

IntCmp(a, b) == IF a < b THEN "Less" ELSE IF a > b THEN "Greater" ELSE "Equal"

partial_cmp(self, o) ==
    IF IntCmp(self.start, o.start) # "Equal" THEN IntCmp(self.start, o.start)
    ELSE IF IntCmp(self.end, o.end) # "Equal" THEN IntCmp(self.end, o.end)
    ELSE IF IntCmp(self.interval, o.interval) # "Equal"
         THEN IntCmp(self.interval, o.interval)
    ELSE IntCmp(ExprRank(self.expr), ExprRank(o.expr))

-----------------------------------------------------------------------------
(* The physical node EmptyMetricExec *)

\* the physical expression is the logical one, bound to the timestamp-only schema
to_execution_plan(self) ==
    [start |-> self.start, end |-> self.end, interval |-> self.interval,
     time_index_schema |-> self.time_index_schema,
     result_schema |-> self.result_schema,
     expr |-> self.expr,
     partitioning |-> 1]

\* the result of statistics() in a build that wraps on integer overflow
\* (overflow_checks = FALSE) or panics on it (overflow_checks = TRUE)
statistics(self, overflow_checks) ==
    LET diff == self.end - self.start
        estimated_row_num == F64Div(AsF64(WrapSigned(diff)), AsF64(self.interval))
        total_byte_size == F64MulPow2(estimated_row_num, 8)
    IN  IF overflow_checks /\ diff # WrapSigned(diff)
        THEN [kind |-> "Panic", precision |-> "", num_rows |-> 0, total_byte_size |-> 0]
        ELSE [kind |-> "Ok", precision |-> "Inexact",
              num_rows |-> F64AsUsize(F64Floor(estimated_row_num)),
              total_byte_size |-> F64AsUsize(F64Floor(total_byte_size))]

execute(self, partition) ==
    [start |-> self.start, end |-> self.end, interval |-> self.interval,
     expr |-> self.expr,
     is_first_poll |-> TRUE,
     time_index_schema |-> self.time_index_schema,
     result_schema |-> self.result_schema,
     partition |-> partition]

\* BaselineMetrics::new
NewMetric == [output_rows |-> 0, elapsed_compute_timers |-> 0, done |-> FALSE]

-----------------------------------------------------------------------------
(* (start..=end).step_by(interval as usize).collect()                      *)

\* Step::forward_checked(start, n) on i64, n a usize
forward_checked(start, n) ==
    LET wrapped == WrapSigned(start + WrapSigned(n))
    IN  IF wrapped >= start
        THEN [some |-> TRUE, value |-> wrapped]
        ELSE [some |-> FALSE, value |-> 0]

RangeInclusive(start, end) == [start |-> start, end |-> end, exhausted |-> FALSE]

is_empty(range) == range.exhausted \/ ~(range.start <= range.end)

Exhaust(range) ==
    [range |-> [start |-> range.end, end |-> range.end, exhausted |-> TRUE],
     some |-> FALSE, item |-> 0]

\* a mutant of nth that treats the range as half-open: the element equal to
\* the end bound is not produced
nth_exclusive(range, n) ==
    IF is_empty(range) THEN [range |-> range, some |-> FALSE, item |-> 0]
    ELSE LET plus_n == forward_checked(range.start, n)
         IN  IF plus_n.some /\ plus_n.value < range.end
             THEN [range |-> [range EXCEPT !.start = plus_n.value + 1],
                   some |-> TRUE, item |-> plus_n.value]
             ELSE Exhaust(range)

\* a mutant of nth that does not stop on overflow: the wrapped sum is
\* produced as the last element
nth_overflow(range, n) ==
    IF is_empty(range) THEN [range |-> range, some |-> FALSE, item |-> 0]
    ELSE LET plus_n == forward_checked(range.start, n)
         IN  IF plus_n.some /\ plus_n.value < range.end
             THEN [range |-> [range EXCEPT !.start = plus_n.value + 1],
                   some |-> TRUE, item |-> plus_n.value]
             ELSE IF plus_n.some /\ plus_n.value = range.end
             THEN [range |-> [range EXCEPT !.start = plus_n.value, !.exhausted = TRUE],
                   some |-> TRUE, item |-> plus_n.value]
             ELSE IF ~plus_n.some
             THEN [range |-> [start |-> range.end, end |-> range.end, exhausted |-> TRUE],
                   some |-> TRUE, item |-> WrapSigned(range.start + WrapSigned(n))]
             ELSE Exhaust(range)

\* RangeInclusive::nth
nth(range, n) ==
    IF is_empty(range) THEN [range |-> range, some |-> FALSE, item |-> 0]
    ELSE LET plus_n == forward_checked(range.start, n)
         IN  IF plus_n.some /\ plus_n.value < range.end
             THEN [range |-> [range EXCEPT !.start = plus_n.value + 1],
                   some |-> TRUE, item |-> plus_n.value]
             ELSE IF plus_n.some /\ plus_n.value = range.end
             THEN [range |-> [range EXCEPT !.start = plus_n.value, !.exhausted = TRUE],
                   some |-> TRUE, item |-> plus_n.value]
             ELSE Exhaust(range)

\* StepBy::next repeated until None: the first call takes nth(0), every
\* later one nth(step - 1)
RECURSIVE StepByCollect(_, _, _, _)
StepByCollect(range, step_minus_one, first_take, acc) ==
    LET r == nth(range, IF first_take THEN 0 ELSE step_minus_one)
    IN  IF r.some
        THEN StepByCollect(r.range, step_minus_one, FALSE, Append(acc, r.item))
        ELSE acc

\* the time index array of poll_next; step_by asserts step # 0
time_array_of(start, end, interval) ==
    StepByCollect(RangeInclusive(start, end), AsUsize(interval) - 1, TRUE, <<>>)

-----------------------------------------------------------------------------
(* Arrays, record batches and the evaluation of the field expression       *)

Array(type, data) == [type |-> type, data |-> data]

\* PhysicalExpr::evaluate(..).and_then(|x| x.into_array(num_rows)) when it
\* succeeds: the time expression casts the timestamp to f64 and divides by
\* 1000.0 (values are kept in thousandths), the literal is repeated num_rows
\* times
evaluate(expr, time_array) ==
    IF expr = "time"
    THEN Array("Float64", [i \in 1..Len(time_array) |-> F64Floor(AsF64(time_array[i]))])
    ELSE Array("Int64", [i \in 1..Len(time_array) |-> 1])

\* RecordBatch::try_new: as many arrays as fields, each of the field's
\* type, all of one length
try_new_ok(schema, arrays) ==
    /\ Len(arrays) = Len(schema)
    /\ \A i \in 1..Len(arrays) :
          /\ arrays[i].type = schema[i].type
          /\ Len(arrays[i].data) = Len(arrays[1].data)

\* the items a pull returns
Batch(schema, arrays) == [kind |-> "Batch", schema |-> schema, columns |-> arrays]

Failed(error) == [kind |-> "Err:" \o error, schema |-> <<>>, columns |-> <<>>]

EndOfData == [kind |-> "None", schema |-> <<>>, columns |-> <<>>]

IsBatch(item) == item.kind = "Batch"

IsFailed(item) == item.kind \notin {"Batch", "None"}

num_rows(item) == Len(item.columns[1].data)

\* what the engine that evaluates expressions answers on a pull
EvalOutcomes == {"ok", "err"}

\* BaselineMetrics::record_poll: counts the rows of a batch, marks the end
\* on an error and on end-of-data
record_poll(m, item) ==
    IF IsBatch(item)
    THEN [m EXCEPT !.output_rows = @ + num_rows(item)]
    ELSE [m EXCEPT !.done = TRUE]

-----------------------------------------------------------------------------
(* EmptyMetricStream::poll_next.  The result names the stream and the      *)
(* metrics after the pull, the item returned, whether the item went        *)
(* through record_poll, and the answers of the calls to evaluate.          *)

PollResult(self, m, item, through_record_poll, evaluations) ==
    [stream |-> self,
     metric |-> IF through_record_poll THEN record_poll(m, item) ELSE m,
     item |-> item,
     recorded |-> through_record_poll,
     evaluated |-> evaluations]

\* the branch of the first poll; `?` returns the error to the caller at once
first_poll(self, m, outcome) ==
    LET s1 == [self EXCEPT !.is_first_poll = FALSE]
        \* _timer adds to elapsed_compute when it is dropped, on every exit
        m1 == [m EXCEPT !.elapsed_compute_timers = @ + 1]
        time_array == Array("TimestampMs",
                            time_array_of(self.start, self.end, self.interval))
    IN  IF ~try_new_ok(self.time_index_schema, <<time_array>>)
        THEN PollResult(s1, m1, Failed("Arrow"), FALSE, <<>>)
        ELSE IF self.expr # None /\ outcome = "err"
        THEN PollResult(s1, m1, Failed("Evaluate"), FALSE, <<outcome>>)
        ELSE LET result_arrays ==
                     IF self.expr # None
                     THEN <<time_array, evaluate(self.expr, time_array.data)>>
                     ELSE <<time_array>>
                 batch == IF try_new_ok(self.result_schema, result_arrays)
                          THEN Batch(self.result_schema, result_arrays)
                          ELSE Failed("Arrow")
             IN  PollResult(s1, m1, batch, TRUE,
                            IF self.expr # None THEN <<outcome>> ELSE <<>>)

\* a mutant of poll_next that clears is_first_poll only when the batch has rows
poll_next_keeps_flag(self, m, outcome) ==
    IF self.is_first_poll
    THEN LET r == first_poll(self, m, outcome)
         IN  [r EXCEPT !.stream.is_first_poll =
                          ~(IsBatch(r.item) /\ num_rows(r.item) > 0)]
    ELSE PollResult(self, m, EndOfData, TRUE, <<>>)

\* a mutant of poll_next that leaves is_first_poll set when the pull fails
poll_next_retries(self, m, outcome) ==
    IF self.is_first_poll
    THEN LET r == first_poll(self, m, outcome)
         IN  [r EXCEPT !.stream.is_first_poll = IsFailed(r.item)]
    ELSE PollResult(self, m, EndOfData, TRUE, <<>>)

poll_next(self, m, outcome) ==
    IF self.is_first_poll
    THEN first_poll(self, m, outcome)
    ELSE PollResult(self, m, EndOfData, TRUE, <<>>)

-----------------------------------------------------------------------------
(* The life of one node: construction, rewriting by the optimizer,         *)
(* lowering, execution and pulls                                           *)

Intervals == 1..MaxInterval

Partitions == 0..MaxPartition

Init ==
    /\ node \in {new(s, e, i, "time", "value", x) :
                    s \in Millisecond, e \in Millisecond, i \in Intervals, x \in OptExprs}
    /\ other = NotYet
    /\ cmp = NotYet
    /\ exec = NotYet
    /\ stats = NotYet
    /\ stream = NotYet
    /\ metric = NewMetric
    /\ polled = <<>>
    /\ recorded = <<>>
    /\ evaluated = <<>>

WithExprsAndInputs ==
    /\ exec = NotYet
    /\ \E exprs \in {<<>>} \cup {<<e>> : e \in Exprs} :
          node' = with_exprs_and_inputs(node, exprs)
    /\ UNCHANGED <<other, cmp, exec, stats, stream, metric, polled, recorded, evaluated>>

ToExecutionPlan ==
    /\ exec = NotYet
    /\ exec' = to_execution_plan(node)
    /\ UNCHANGED <<node, other, cmp, stats, stream, metric, polled, recorded, evaluated>>

Execute ==
    /\ exec # NotYet
    /\ \E partition \in Partitions :
          stream' = execute(exec, partition)
    /\ metric' = NewMetric
    /\ polled' = <<>>
    /\ recorded' = <<>>
    /\ evaluated' = <<>>
    /\ UNCHANGED <<node, other, cmp, exec, stats>>

PollNext ==
    /\ stream # NotYet
    /\ Len(polled) < MaxPolls
    /\ \E outcome \in EvalOutcomes :
          LET r == poll_next(stream, metric, outcome)
          IN  /\ stream' = r.stream
              /\ metric' = r.metric
              /\ polled' = Append(polled, r.item)
              /\ recorded' = IF r.recorded THEN Append(recorded, r.item) ELSE recorded
              /\ evaluated' = evaluated \o r.evaluated
    /\ UNCHANGED <<node, other, cmp, exec, stats>>

Next == WithExprsAndInputs \/ ToExecutionPlan \/ Execute \/ PollNext

Spec == Init /\ [][Next]_vars

-----------------------------------------------------------------------------
(* statistics() of a lowered node *)

Statistics ==
    /\ exec # NotYet
    /\ \E overflow_checks \in BOOLEAN :
          stats' = statistics(exec, overflow_checks)
    /\ UNCHANGED <<node, other, cmp, exec, stream, metric, polled, recorded, evaluated>>

NextStats == ToExecutionPlan \/ Statistics

SpecStats == Init /\ [][NextStats]_vars

-----------------------------------------------------------------------------
(* Comparison of two nodes *)

CmpTimes == 0..MaxCmpTime

TimeNames == {"time", "ts"}

CmpNodes ==
    {new(s, e, i, t, "value", x) :
        s \in CmpTimes, e \in CmpTimes, i \in 1..2, t \in TimeNames, x \in OptExprs}

InitCmp ==
    /\ node \in CmpNodes
    /\ other \in CmpNodes
    /\ cmp = NotYet
    /\ exec = NotYet
    /\ stats = NotYet
    /\ stream = NotYet
    /\ metric = NewMetric
    /\ polled = <<>>
    /\ recorded = <<>>
    /\ evaluated = <<>>

Compare ==
    /\ cmp' = [eq |-> eq(node, other), ord |-> partial_cmp(node, other)]
    /\ UNCHANGED <<node, other, exec, stats, stream, metric, polled, recorded, evaluated>>

NextCmp == Compare

SpecCmp == InitCmp /\ [][NextCmp]_vars

-----------------------------------------------------------------------------
(* Properties *)

\* the stream has answered its first pull
FirstPullDone == stream # NotYet /\ Len(polled) >= 1

\* the timestamps of the batch the first pull emitted
Timestamps == polled[1].columns[1].data

Max(a, b) == IF a > b THEN a ELSE b

\* C1: for start <= end and interval > 0 the batch of the first pull has
\* exactly floor((end - start) / interval) + 1 rows, the k-th timestamp is
\* start + k * interval, the last one is <= end and less than one interval
\* below end.
GridRowsAndTimestamps ==
    (FirstPullDone /\ stream.start <= stream.end /\ IsBatch(polled[1])) =>
        LET count == (stream.end - stream.start) \div stream.interval + 1
        IN  /\ Len(Timestamps) = count
            /\ \A k \in 0..(count - 1) :
                  Timestamps[k + 1] = stream.start + k * stream.interval
            /\ Timestamps[count] <= stream.end
            /\ stream.end - Timestamps[count] < stream.interval

\* a batch of several rows on a grid whose interval does not divide the range
GridRowsAndTimestampsWitness ==
    /\ FirstPullDone
    /\ IsBatch(polled[1])
    /\ stream.start < stream.end
    /\ (stream.end - stream.start) % stream.interval # 0
    /\ Len(Timestamps) >= 3
    /\ Timestamps[Len(Timestamps)] < stream.end

\* C2: the stream is one-shot: only the first pull produces an item, every
\* later pull returns end-of-data without evaluating or timing anything, and
\* is_first_poll is set exactly as long as no pull was made.
OneShot ==
    stream # NotYet =>
        /\ stream.is_first_poll = (Len(polled) = 0)
        /\ \A i \in 2..Len(polled) : polled[i] = EndOfData
        /\ Len(evaluated) <= 1
        /\ metric.elapsed_compute_timers = IF Len(polled) = 0 THEN 0 ELSE 1

\* a second pull after a first pull that emitted a zero-row batch
OneShotWitness ==
    /\ stream # NotYet
    /\ Len(polled) >= 2
    /\ IsBatch(polled[1])
    /\ num_rows(polled[1]) = 0
    /\ polled[2] = EndOfData
    /\ ~stream.is_first_poll

\* C3: for end < start the first pull emits one batch, neither end-of-data
\* nor an error, with zero rows and every column of the result schema:
\* the timestamp, and the value when an expression is bound.  (Stated for
\* the pulls whose expression evaluation did not fail.)
EmptyRangeEmitsEmptyBatch ==
    (FirstPullDone /\ stream.end < stream.start
        /\ \A i \in 1..Len(evaluated) : evaluated[i] = "ok") =>
        /\ IsBatch(polled[1])
        /\ num_rows(polled[1]) = 0
        /\ Len(polled[1].columns) = Len(stream.result_schema)
        /\ Len(polled[1].columns) = IF stream.expr # None THEN 2 ELSE 1

\* C4: the result schema of every node reached by new and
\* with_exprs_and_inputs has one column when the node holds no expression
\* and two columns when it holds one, which is the number of arrays the
\* first pull assembles.
SchemaShapeFollowsExpression ==
    Len(node.result_schema) = Len(expressions(node)) + 1

\* the two nodes agree on (start, end, interval, expression)
SameKey ==
    /\ node.start = other.start
    /\ node.end = other.end
    /\ node.interval = other.interval
    /\ node.expr = other.expr

\* C5: equality and ordering depend only on (start, end, interval,
\* expression): two nodes that agree on these are equal and compare as
\* Equal, whatever their schemas.
EqualityAndOrderIgnoreSchemas ==
    (cmp # NotYet /\ SameKey) => (cmp.eq /\ cmp.ord = "Equal")

\* the integer x is a value of f64
ExactInF64(x) == AsF64(x).num = x * FScale

\* C6: statistics() reports the inexact row count
\* max(0, floor((end - start) / interval)), which never exceeds the number
\* of rows the stream emits and is at most one below it.  (Stated for the
\* bounds whose difference f64 holds exactly.)
StatisticsEstimate ==
    (stats # NotYet /\ ExactInF64(exec.end - exec.start)
        /\ ExactInF64(exec.interval)) =>
        LET rows == Len(time_array_of(exec.start, exec.end, exec.interval))
        IN  /\ stats.kind = "Ok"
            /\ stats.precision = "Inexact"
            /\ stats.num_rows = Max(0, (exec.end - exec.start) \div exec.interval)
            /\ stats.num_rows <= rows
            /\ rows - stats.num_rows <= 1

\* C7: when the evaluation of the expression fails on the first pull, that
\* pull returns the evaluation error, no pull of the stream ever returns a
\* batch, and every later pull returns end-of-data.
EvaluationFailureEndsStream ==
    (stream # NotYet /\ Len(evaluated) >= 1 /\ evaluated[1] = "err") =>
        /\ Len(evaluated) = 1
        /\ polled[1] = Failed("Evaluate")
        /\ \A i \in 1..Len(polled) : ~IsBatch(polled[i])
        /\ \A i \in 2..Len(polled) : polled[i] = EndOfData

\* a pull after the evaluation failed on a grid that has rows
EvaluationFailureWitness ==
    /\ stream # NotYet
    /\ evaluated = <<"err">>
    /\ stream.start <= stream.end
    /\ Len(polled) >= 2
    /\ IsFailed(polled[1])
    /\ polled[2] = EndOfData

\* C8: the enumeration is overflow-safe: for start <= end the timestamps of
\* the batch are strictly increasing and all lie in [start, end], also when
\* the next point of the grid is beyond the largest integer.
OverflowSafeEnumeration ==
    (FirstPullDone /\ stream.start <= stream.end /\ IsBatch(polled[1])) =>
        /\ Len(Timestamps) >= 1
        /\ \A i \in 1..Len(Timestamps) :
              /\ stream.start <= Timestamps[i]
              /\ Timestamps[i] <= stream.end
              /\ i > 1 => Timestamps[i - 1] < Timestamps[i]

\* a batch of a grid whose next point does not fit the integer width
OverflowSafeWitness ==
    /\ FirstPullDone
    /\ IsBatch(polled[1])
    /\ stream.start <= stream.end
    /\ Len(Timestamps) >= 2
    /\ Timestamps[Len(Timestamps)] + stream.interval > MaxInt

\* C9: a stream returned by execute for a partition other than 0 never
\* emits the grid batch.
OnlyPartitionZeroEmits ==
    (stream # NotYet /\ stream.partition # 0) =>
        \A i \in 1..Len(polled) : ~IsBatch(polled[i])

\* C10: every item a pull returns went through record_poll.
EveryResultRecorded == recorded = polled

=============================================================================
